---- MODULE Spec2Model ----
(***************************************************************************)
(* Model of backlog_app.py, the JEE backlog tracker: a Streamlit script    *)
(* that keeps a table of subjects (Subject, Number of Lectures, Last       *)
(* Updated) in backlog.csv and a table (Date, Total Backlog) in            *)
(* history.csv.  One action of the model is one run of the script caused   *)
(* by one user interaction; the calendar is advanced by a separate action. *)
(*                                                                         *)
(* Dates are day numbers counted from 2024-01-01, a Monday, so that        *)
(* date.weekday() is the day number modulo 7 and Sunday is 6.  In the      *)
(* tables dates are "%Y-%m-%d" strings, modelled as <<year, month, day>>.  *)
(***************************************************************************)
EXTENDS Integers, Sequences, FiniteSets, TLC

VARIABLES today, csv, hist, data, pace, est_df, lastOp, ledger, plan

vars == <<today, csv, hist, data, pace, est_df, lastOp, ledger, plan>>

(* ---------------------------- bounds ---------------------------------- *)
(* The application is first run on day StartDay (a Saturday) and the      *)
(* calendar stops at MaxDay (the Monday after): a non-rest day, the rest  *)
(* day and a non-rest day.  The account of SpecLedger starts a day        *)
(* earlier, on the Friday, and follows LedgerRows records.  The table     *)
(* holds at most MaxRows records, a subject is added with at most         *)
(* MaxStart lectures, at most MaxDone lectures are marked at once, and    *)
(* mark_done may raise a record only up to MaxLectures lectures.          *)
StartDay == 5
LedgerStartDay == 4
LedgerRows == 1
MaxDay == 7
MaxRows == 2
MaxStart == 2
MaxDone == 2
MaxLectures == 2
MaxPace == 2

(* ------------------------ program constants --------------------------- *)
Sunday == 6
MinPace == 1
MinDone == 0
MinStart == 0

(* subject names the user may type; NumericNames are those made of digits *)
Names == {"Physics", "7"}
NumericNames == {"7"}

(* ------------------------------ dates --------------------------------- *)
weekday(d) == d % 7

strftime(d) == <<2024, 1, d + 1>>

strptime(s) == s[3] - 1

(* --------------------------- table cells ------------------------------ *)
(* A Subject cell is a Python str or, after read_csv inferred an integer   *)
(* column, an int; the two never compare equal.                           *)
StrCell(text) == [t |-> "str", v |-> text]

IntCell(text) == [t |-> "int", v |-> text]

(* to_csv writes the text of every cell *)
to_csv(df) ==
    [i \in 1..Len(df) |->
        [Subject |-> df[i].Subject.v,
         Lectures |-> df[i].Lectures,
         LastUpdated |-> df[i].LastUpdated]]

(* read_csv: a column all of whose fields parse as integers becomes an     *)
(* int64 column, any other column keeps its fields as strings             *)
read_csv(file) ==
    LET allNumeric == \A i \in 1..Len(file) : file[i].Subject \in NumericNames
    IN  [i \in 1..Len(file) |->
            [Subject |-> IF allNumeric THEN IntCell(file[i].Subject)
                                       ELSE StrCell(file[i].Subject),
             Lectures |-> file[i].Lectures,
             LastUpdated |-> file[i].LastUpdated]]

load_backlog(file) == read_csv(file)

save_backlog(df) == to_csv(df)

RECURSIVE SumLectures(_, _)
SumLectures(df, n) ==
    IF n = 0 THEN 0 ELSE df[n].Lectures + SumLectures(df, n - 1)

Total(df) == SumLectures(df, Len(df))

(* ----------------------------- history -------------------------------- *)
log_history(h, t, total) ==
    IF h = <<>> \/ h[Len(h)].Date # strftime(t)
    THEN Append(h, [Date |-> strftime(t), Total |-> total])
    ELSE h

(* -------------------------- auto_increment ---------------------------- *)
(* sum(1 for d in range(1, days + 1) if (last + d).weekday() != 6)         *)
IncSumAll(last, d) == IF d <= 0 THEN 0 ELSE d

RECURSIVE IncSum(_, _)
IncSum(last, d) ==
    IF d <= 0 THEN 0
    ELSE (IF weekday(last + d) # Sunday THEN 1 ELSE 0) + IncSum(last, d - 1)

RowIncInclusive(row, t) ==
    LET last == strptime(row.LastUpdated)
        days == t - last
    IN  IF days >= 0 THEN IncSum(last - 1, days + 1) ELSE 0

RowInc(row, t) ==
    LET last == strptime(row.LastUpdated)
        days == t - last
    IN  IF days > 0 THEN IncSum(last, days) ELSE 0

AutoRowKeepDate(row, t) ==
    IF RowInc(row, t) # 0
    THEN [row EXCEPT !.Lectures = row.Lectures + RowInc(row, t)]
    ELSE row

AutoRow(row, t) ==
    IF RowInc(row, t) # 0
    THEN [row EXCEPT !.Lectures = row.Lectures + RowInc(row, t),
                     !.LastUpdated = strftime(t)]
    ELSE row

auto_increment(df, t) ==
    IF weekday(t) = Sunday
    THEN [df |-> df, changed |-> FALSE]
    ELSE [df |-> [i \in 1..Len(df) |-> AutoRow(df[i], t)],
          changed |-> \E i \in 1..Len(df) : RowInc(df[i], t) # 0]

(* ----------------------------- mark_done ------------------------------ *)
Max(a, b) == IF a >= b THEN a ELSE b

(* df.index[df["Subject"] == subject][0] *)
FirstIndex(df, subject) ==
    CHOOSE i \in 1..Len(df) :
        /\ df[i].Subject = subject
        /\ \A j \in 1..(i - 1) : df[j].Subject # subject

MarkNewNoClamp(curr, done, t) ==
    IF weekday(t) = Sunday THEN curr - done ELSE curr - (done - 1)

MarkNew(curr, done, t) ==
    IF weekday(t) = Sunday
    THEN Max(0, curr - done)
    ELSE Max(0, curr - (done - 1))

mark_done(df, subject, done, t) ==
    LET idx == FirstIndex(df, subject)
    IN  [df EXCEPT ![idx].Lectures = MarkNew(df[idx].Lectures, done, t),
                   ![idx].LastUpdated = strftime(t)]

(* ---------------------------- estimate_days --------------------------- *)
Inf == [inf |-> TRUE, n |-> 0]

Fin(k) == [inf |-> FALSE, n |-> k]

CeilDivFloor(a, b) == a \div b

(* math.ceil(b * 7 / net_weekly) for net_weekly > 0 *)
CeilDiv(a, b) == (a + b - 1) \div b

EstimateRow(b, p) ==
    LET net_weekly == p * 7 - 6
    IN  IF net_weekly <= 0 THEN Inf ELSE Fin(CeilDiv(b * 7, net_weekly))

(* days // 7: math.inf // 7 is nan *)
Weeks(days) == IF days.inf THEN [nan |-> TRUE, n |-> 0]
                           ELSE [nan |-> FALSE, n |-> days.n \div 7]

estimate_days(df, p) ==
    [i \in 1..Len(df) |->
        [Subject |-> df[i].Subject,
         Days |-> EstimateRow(df[i].Lectures, p),
         Weeks |-> Weeks(EstimateRow(df[i].Lectures, p))]]

(* ------------------------------ state --------------------------------- *)
(* today   the calendar date, datetime.date.today()                        *)
(* csv     backlog.csv;  hist  history.csv                                 *)
(* data    st.session_state.data;  pace  the slider;  est_df  the table    *)
(* lastOp, ledger, plan record what has been done, for stating properties  *)
NoOp == [op |-> "none", row |-> 0, n |-> 0, before |-> 0, changed |-> FALSE]

NoLedger == [rows |-> <<>>, synced |-> -1]

NewEntry(day) == [created |-> day, accrued |-> 0, marked |-> {}]

NoPlan == [active |-> FALSE, row |-> 0, L |-> 0, p |-> 0, start |-> 0,
           est |-> 0, reached |-> FALSE, phase |-> "idle"]

(* first run of the script in an empty directory: ensure_csv creates both *)
(* files and the session is initialised from the empty table              *)
InitOn(day) ==
    /\ today = day
    /\ csv = <<>>
    /\ hist = <<>>
    /\ data = <<>>
    /\ pace = MinPace
    /\ est_df = <<>>
    /\ lastOp = NoOp
    /\ ledger = NoLedger
    /\ plan = NoPlan

Init == InitOn(StartDay)

(* ----------------------------- operations ------------------------------ *)
(* midnight passes; nothing runs *)
NextDay ==
    /\ today < MaxDay
    /\ today' = today + 1
    /\ UNCHANGED <<csv, hist, data, pace, est_df>>

(* a new session: "initialized" is not in st.session_state, the slider is *)
(* at its default                                                          *)
SessionInit ==
    LET r == auto_increment(load_backlog(csv), today)
    IN  /\ data' = r.df
        /\ csv' = IF r.changed THEN save_backlog(r.df) ELSE csv
        /\ hist' = IF r.changed THEN log_history(hist, today, Total(r.df)) ELSE hist
        /\ pace' = MinPace
        /\ est_df' = estimate_days(r.df, MinPace)
        /\ UNCHANGED today

(* "Mark Done" pressed with the subject of row i selected; the first     *)
(* conjunct of the LET only bounds the growth of the record              *)
MarkDone(i, done) ==
    /\ i \in 1..Len(data)
    /\ LET idx == FirstIndex(data, data[i].Subject)
           new == mark_done(data, data[i].Subject, done, today)
       IN  /\ new[idx].Lectures <= Max(data[idx].Lectures, MaxLectures)
           /\ data' = new
           /\ csv' = save_backlog(new)
           /\ hist' = log_history(hist, today, Total(new))
           /\ est_df' = estimate_days(new, pace)
    /\ UNCHANGED <<today, pace>>

(* "Force Sync" pressed *)
ForceSync ==
    LET r == auto_increment(data, today)
    IN  /\ data' = r.df
        /\ csv' = IF r.changed THEN save_backlog(r.df) ELSE csv
        /\ hist' = IF r.changed THEN log_history(hist, today, Total(r.df)) ELSE hist
        /\ est_df' = estimate_days(r.df, pace)
        /\ UNCHANGED <<today, pace>>

(* the add form submitted with name ns (already stripped) and backlog nb *)
AddRejected(ns) ==
    ns = "" \/ \E i \in 1..Len(data) : data[i].Subject = StrCell(ns)

AddSubject(ns, nb) ==
    /\ IF AddRejected(ns)
       THEN UNCHANGED <<csv, data, est_df>>
       ELSE LET new == Append(data, [Subject |-> StrCell(ns), Lectures |-> nb,
                                     LastUpdated |-> strftime(today)])
            IN  /\ Len(data) < MaxRows
                /\ data' = new
                /\ csv' = save_backlog(new)
                /\ est_df' = estimate_days(new, pace)
    /\ UNCHANGED <<today, hist, pace>>

(* the pace slider moved *)
SetPace(p) ==
    /\ p # pace
    /\ pace' = p
    /\ est_df' = estimate_days(data, p)
    /\ UNCHANGED <<today, csv, hist, data>>

(* ------------------- the application, with its last operation --------- *)
Log(op, row, n, before, changed) ==
    lastOp' = [op |-> op, row |-> row, n |-> n, before |-> before,
               changed |-> changed]

DayStep == NextDay /\ Log("next_day", 0, 0, 0, FALSE)

SessionStep ==
    SessionInit /\ Log("session", 0, 0, 0,
                       auto_increment(load_backlog(csv), today).changed)

MarkStep(i, done) ==
    /\ MarkDone(i, done)
    /\ Log("mark_done", FirstIndex(data, data[i].Subject), done,
           data[FirstIndex(data, data[i].Subject)].Lectures, TRUE)

SyncStep == ForceSync /\ Log("force_sync", 0, 0, 0, auto_increment(data, today).changed)

AddStep(ns, nb) ==
    /\ AddSubject(ns, nb)
    /\ Log("add", 0, 0, 0, ~AddRejected(ns))

Next ==
    \/ DayStep /\ UNCHANGED <<ledger, plan>>
    \/ SessionStep /\ UNCHANGED <<ledger, plan>>
    \/ \E i \in 1..MaxRows, done \in MinDone..MaxDone :
           MarkStep(i, done) /\ UNCHANGED <<ledger, plan>>
    \/ SyncStep /\ UNCHANGED <<ledger, plan>>
    \/ \E ns \in Names \cup {""}, nb \in MinStart..MaxStart :
           AddStep(ns, nb) /\ UNCHANGED <<ledger, plan>>

Spec == Init /\ [][Next]_vars

(* ------------------- the application with the pace slider ------------- *)
NextEst ==
    \/ NextDay /\ UNCHANGED <<lastOp, ledger, plan>>
    \/ SessionInit /\ UNCHANGED <<lastOp, ledger, plan>>
    \/ \E i \in 1..MaxRows, done \in MinDone..MaxDone :
           MarkDone(i, done) /\ UNCHANGED <<lastOp, ledger, plan>>
    \/ ForceSync /\ UNCHANGED <<lastOp, ledger, plan>>
    \/ \E ns \in Names \cup {""}, nb \in MinStart..MaxStart :
           AddSubject(ns, nb) /\ UNCHANGED <<lastOp, ledger, plan>>
    \/ \E p \in MinPace..MaxPace : SetPace(p) /\ UNCHANGED <<lastOp, ledger, plan>>

SpecEst == Init /\ [][NextEst]_vars

(* ------------- the application with an account of each record --------- *)
(* ledger.rows[i] holds, for row i of the table: the date it was created, *)
(* the sum of the increments auto_increment gave it, and the non-rest     *)
(* days on which mark_done was applied to it; ledger.synced is the date   *)
(* auto_increment last ran to completion.  The table is kept to          *)
(* LedgerRows records.                                                    *)
Credited(old, new) ==
    [rows |-> [i \in 1..Len(ledger.rows) |->
                  [ledger.rows[i] EXCEPT
                      !.accrued = @ + (new[i].Lectures - old[i].Lectures)]],
     synced |-> today]

LedgerDay == NextDay /\ UNCHANGED ledger

LedgerSession ==
    SessionInit /\ ledger' = Credited(load_backlog(csv), data')

LedgerSync == ForceSync /\ ledger' = Credited(data, data')

LedgerMark(i, done) ==
    /\ MarkDone(i, done)
    /\ ledger' = IF weekday(today) = Sunday THEN ledger
                 ELSE [ledger EXCEPT
                          !.rows[FirstIndex(data, data[i].Subject)].marked =
                              @ \cup {today}]

LedgerAdd(ns, nb) ==
    /\ AddRejected(ns) \/ Len(data) < LedgerRows
    /\ AddSubject(ns, nb)
    /\ ledger' = IF AddRejected(ns) THEN ledger
                 ELSE [ledger EXCEPT !.rows = Append(@, NewEntry(today))]

NextLedger ==
    \/ LedgerDay /\ UNCHANGED <<lastOp, plan>>
    \/ LedgerSession /\ UNCHANGED <<lastOp, plan>>
    \/ \E i \in 1..MaxRows, done \in MinDone..MaxDone :
           LedgerMark(i, done) /\ UNCHANGED <<lastOp, plan>>
    \/ LedgerSync /\ UNCHANGED <<lastOp, plan>>
    \/ \E ns \in Names \cup {""}, nb \in MinStart..MaxStart :
           LedgerAdd(ns, nb) /\ UNCHANGED <<lastOp, plan>>

SpecLedger == InitOn(LedgerStartDay) /\ [][NextLedger]_vars

(* ------------- the application followed by a user keeping a pace ------ *)
(* Until a plan is made the application is used freely.  StartPlan reads  *)
(* the estimate of one subject; from then on, every day, the application  *)
(* is loaded and mark_done is called for that subject with the pace.      *)
Free(A) == ~plan.active /\ A /\ UNCHANGED <<lastOp, ledger, plan>>

StartPlan(i) ==
    /\ ~plan.active
    /\ i \in 1..Len(data)
    /\ i = FirstIndex(data, data[i].Subject)
    /\ plan' = [active |-> TRUE, row |-> i, L |-> data[i].Lectures, p |-> pace,
                start |-> today, est |-> est_df[i].Days.n,
                reached |-> (data[i].Lectures = 0), phase |-> "marked"]
    /\ UNCHANGED <<today, csv, hist, data, pace, est_df, lastOp, ledger>>

FlowDay ==
    /\ plan.active /\ plan.phase = "marked"
    /\ NextDay
    /\ plan' = [plan EXCEPT !.phase = "midnight"]
    /\ UNCHANGED <<lastOp, ledger>>

FlowLoad ==
    /\ plan.active /\ plan.phase = "midnight"
    /\ SessionInit
    /\ plan' = [plan EXCEPT !.phase = "loaded"]
    /\ UNCHANGED <<lastOp, ledger>>

FlowMark ==
    /\ plan.active /\ plan.phase = "loaded"
    /\ MarkDone(plan.row, plan.p)
    /\ plan' = [plan EXCEPT !.phase = "marked",
                            !.reached = @ \/ data'[plan.row].Lectures = 0]
    /\ UNCHANGED <<lastOp, ledger>>

NextFlow ==
    \/ Free(NextDay)
    \/ Free(SessionInit)
    \/ \E i \in 1..MaxRows, done \in MinDone..MaxDone : Free(MarkDone(i, done))
    \/ Free(ForceSync)
    \/ \E ns \in Names \cup {""}, nb \in MinStart..MaxStart : Free(AddSubject(ns, nb))
    \/ \E p \in MinPace..MaxPace : Free(SetPace(p))
    \/ \E i \in 1..MaxRows : StartPlan(i)
    \/ FlowDay
    \/ FlowLoad
    \/ FlowMark

SpecFlow == Init /\ [][NextFlow]_vars

(* ------------------------------ properties ---------------------------- *)
Rows(df) == 1..Len(df)

HistoryToday == hist # <<>> /\ hist[Len(hist)].Date = strftime(today)

Marked == lastOp'.op = "mark_done" /\ lastOp' # lastOp

Synced == lastOp'.op = "force_sync" /\ lastOp' # lastOp

Loaded == lastOp'.op = "session" /\ lastOp' # lastOp

Added == lastOp'.op = "add" /\ lastOp' # lastOp

(* C1: in every reachable state every record, in the session and in       *)
(* backlog.csv, has lectures >= 0.                                        *)
C1_LecturesNonNegative ==
    /\ \A i \in Rows(data) : data[i].Lectures >= 0
    /\ \A i \in Rows(csv) : csv[i].Lectures >= 0

(* a Sunday mark_done of more units than the record held, clamped at zero *)
C1_Witness ==
    /\ lastOp.op = "mark_done"
    /\ weekday(today) = Sunday
    /\ lastOp.before < lastOp.n
    /\ data[lastOp.row].Lectures = 0

(* C2: markCompleted with unitsCompleted >= 0 leaves max(0, lectures -     *)
(* units) on the rest day and max(0, lectures - max(0, units - 1)) on any  *)
(* other day, never more than before, and changes no other record.        *)
C2_MarkCompletedPolicy ==
    [][Marked =>
          LET idx == lastOp'.row
              done == lastOp'.n
              L == data[idx].Lectures
          IN  /\ data'[idx].Lectures =
                     IF weekday(today) = Sunday
                     THEN Max(0, L - done)
                     ELSE Max(0, L - Max(0, done - 1))
              /\ data'[idx].Lectures <= L
              /\ Len(data') = Len(data)
              /\ \A j \in Rows(data) : j # idx => data'[j] = data[j]]_vars

(* the number of non-Sunday dates in (last, t] *)
NonRestDays(last, t) == Cardinality({d \in (last + 1)..t : weekday(d) # Sunday})

(* new is old after an accrual at date t, as the specification states it *)
AccruedFrom(old, new, t) ==
    /\ Len(new) = Len(old)
    /\ \A i \in Rows(old) :
          LET last == strptime(old[i].LastUpdated)
          IN  IF weekday(t) # Sunday /\ last < t
              THEN /\ new[i].Lectures = old[i].Lectures + NonRestDays(last, t)
                   /\ new[i].LastUpdated = strftime(t)
              ELSE /\ new[i].Lectures = old[i].Lectures
                   /\ new[i].LastUpdated = old[i].LastUpdated

MondayRow == [Subject |-> StrCell("Physics"), Lectures |-> 0,
              LastUpdated |-> <<2024, 1, 1>>]

(* C3: on a non-rest day auto_increment adds to every record with         *)
(* lastUpdated < today the number of non-Sunday dates in (lastUpdated,    *)
(* today] and sets lastUpdated to today (2024-01-01 to 2024-01-08 gives   *)
(* +6), leaves the records with lastUpdated >= today alone, and on a      *)
(* Sunday changes no record.                                              *)
C3_Accrual ==
    [][/\ Synced => AccruedFrom(data, data', today)
       /\ Loaded => AccruedFrom(csv, data', today)
       /\ (Synced \/ Loaded) =>
              /\ AccruedFrom(csv, csv', today)
              /\ auto_increment(<<MondayRow>>, 7).df[1].Lectures = 6]_vars

(* a Force Sync on the Monday that accrued every record, none touched     *)
(* since Saturday: the interval holds a Sunday                            *)
C3_Witness ==
    /\ lastOp.op = "force_sync"
    /\ lastOp.changed
    /\ weekday(today) = 0
    /\ \E i \in Rows(data) : data[i].LastUpdated = strftime(today)
    /\ hist = <<[Date |-> strftime(today), Total |-> Total(data)]>>

SameRecord(old, new) ==
    new.Lectures = old.Lectures /\ new.LastUpdated = old.LastUpdated

Untouched(old, new) ==
    Len(new) = Len(old) /\ \A i \in Rows(old) : SameRecord(old[i], new[i])

(* C4 as stated: when a HistoryPoint exists for today, auto_increment     *)
(* changes neither lectures nor lastUpdated of any record.                *)
C4_HistoryGuard ==
    [][/\ (HistoryToday /\ Synced) => Untouched(data, data')
       /\ (HistoryToday /\ Loaded) => Untouched(csv, data')]_vars

AccruedUnlessToday(old, new) ==
    /\ Len(new) = Len(old)
    /\ \A i \in Rows(old) :
          IF weekday(today) = Sunday \/ strptime(old[i].LastUpdated) >= today
          THEN SameRecord(old[i], new[i])
          ELSE /\ new[i].Lectures > old[i].Lectures
               /\ new[i].LastUpdated = strftime(today)

(* C4 amended: a HistoryPoint for today does not stop the accrual.  With  *)
(* one present, auto_increment leaves alone exactly the records whose     *)
(* lastUpdated is today already (and every record on a Sunday); a record  *)
(* whose lastUpdated is before today is accrued and dated today, and the  *)
(* HistoryPoint is left as it was.                                        *)
C4_LastUpdatedGuard ==
    [][/\ (HistoryToday /\ Synced) => AccruedUnlessToday(data, data')
       /\ (HistoryToday /\ Loaded) => AccruedUnlessToday(csv, data')
       /\ (HistoryToday /\ (Synced \/ Loaded)) => hist' = hist]_vars

(* a Force Sync that accrued a record although today's HistoryPoint was   *)
(* written before it: the point's total is not the table's total          *)
C4_Witness ==
    /\ lastOp.op = "force_sync"
    /\ lastOp.changed
    /\ HistoryToday
    /\ hist[Len(hist)].Total # Total(data)

(* C5: when auto_increment has run, running it again with the same today  *)
(* changes no record and writes neither file.                             *)
C5_Idempotent ==
    [][(Synced \/ Loaded) =>
          /\ auto_increment(data', today).df = data'
          /\ ~auto_increment(data', today).changed
          /\ auto_increment(load_backlog(csv'), today).df = load_backlog(csv')
          /\ ~auto_increment(load_backlog(csv'), today).changed]_vars

(* a session start that did accrue *)
C5_Witness ==
    /\ lastOp.op = "session"
    /\ lastOp.changed
    /\ \E i \in Rows(data) : data[i].LastUpdated = strftime(today)

(* C6: subject names stay unique: adding a name the table holds is        *)
(* rejected and changes nothing, any other name appends one record with   *)
(* the given lectures, dated today, and changes no other record.          *)
NameTaken(df, ns) == \E i \in Rows(df) : df[i].Subject.v = ns

C6_UniqueSubjects ==
    [][\A ns \in Names, nb \in MinStart..MaxStart :
          (Added /\ AddSubject(ns, nb)) =>
             /\ IF NameTaken(data, ns)
                THEN data' = data /\ csv' = csv
                ELSE data' = Append(data, [Subject |-> StrCell(ns),
                                           Lectures |-> nb,
                                           LastUpdated |-> strftime(today)])
             /\ \A i, j \in Rows(data') :
                   i # j => data'[i].Subject.v # data'[j].Subject.v]_vars

(* the least k with k * net >= a, that is ceil(a / net) *)
LeastDays(a, net) ==
    CHOOSE k \in 0..a : k * net >= a /\ \A m \in 0..(k - 1) : m * net < a

(* C7: for every pace >= 1 the table holds for every subject the finite   *)
(* value ceil(lectures * 7 / (7 * pace - 6)) (70 at pace 2 gives 62, 0    *)
(* gives 0); a weekly net <= 0 gives the infinite value; computing the    *)
(* estimate changes no record.                                            *)
C7_Estimate ==
    [][/\ Len(est_df') = Len(data')
       /\ \A i \in Rows(data') :
             /\ est_df'[i].Subject = data'[i].Subject
             /\ ~est_df'[i].Days.inf
             /\ est_df'[i].Days.n = LeastDays(data'[i].Lectures * 7, 7 * pace' - 6)
       /\ EstimateRow(70, 2) = Fin(62)
       /\ EstimateRow(0, 1) = Fin(0)
       /\ \A p \in -1..0, b \in 0..MaxLectures :
             EstimateRow(b, p).inf /\ EstimateRow(b, p) # Fin(EstimateRow(b, p).n)
       /\ \A p \in MinPace..MaxPace :
             SetPace(p) => data' = data /\ csv' = csv /\ hist' = hist]_vars

(* the slider at 2 with a subject of 3 lectures: ceil(21 / 8) = 3 *)
C7_Witness ==
    /\ pace = 2
    /\ \E i \in Rows(data) : data[i].Lectures = 3 /\ est_df[i].Days = Fin(3)

(* C8: whenever auto_increment has completed on a non-rest day, every     *)
(* record has received, in increments plus non-rest days with a           *)
(* mark_done, at least the number of non-rest days since its creation.    *)
C8_NoDayLost ==
    (ledger.synced = today /\ weekday(today) # Sunday) =>
        \A i \in Rows(ledger.rows) :
            ledger.rows[i].accrued + Cardinality(ledger.rows[i].marked)
                >= NonRestDays(ledger.rows[i].created, today)

(* C9: a user who, from the day after the estimate, loads the application *)
(* and marks the pace every day has seen the subject at 0 lectures by the *)
(* estimated number of days.                                              *)
C9_EstimateAchievable ==
    (plan.active /\ plan.phase = "marked" /\ today - plan.start >= plan.est)
        => plan.reached

(* C10: on one non-rest day, mark_done with a units and then with b units *)
(* (a, b >= 1, nothing clamped) leaves what one mark_done with a + b      *)
(* units leaves.                                                          *)
C10_ReserveOncePerDay ==
    [][(/\ Marked
        /\ lastOp.op = "mark_done"
        /\ lastOp.row = lastOp'.row
        /\ lastOp.n >= 1
        /\ lastOp'.n >= 1
        /\ weekday(today) # Sunday
        /\ lastOp.before - (lastOp.n + lastOp'.n - 1) >= 0)
       => data'[lastOp'.row].Lectures
              = MarkNew(lastOp.before, lastOp.n + lastOp'.n, today)]_vars
====
